---- MODULE Spec2Model ----
(***************************************************************************)
(* Model of the multi-pass disk preparation script (src/disk_puri.py; the  *)
(* earlier iteration src/diskprep.py is the same program with loop_mode    *)
(* fixed to FALSE).                                                        *)
(*                                                                         *)
(* The state is the state of one run after the schema has been confirmed:  *)
(* the pass schema, the global registry temp_files, the files of the       *)
(* working directory, the position of main, the processes spawned by       *)
(* execute_command with the stderr pipe, and the running SIGINT handler    *)
(* (cleanup is installed with signal.signal and Python runs it between two *)
(* bytecodes of the main thread, also inside itself).                      *)
(***************************************************************************)
EXTENDS Integers, Sequences, FiniteSets, TLC

VARIABLES
    passes,      \* the schema returned by configure_passes
    loop_mode,   \* the loop flag returned by configure_passes
    pc,          \* position of main
    i,           \* 1-based index of the for loop of main
    starts,      \* number of passes the for loop has started so far
    fs,          \* working directory: file name -> [exists, data]
    temp_files,  \* the global registry (a list, duplicates allowed)
    fill_n,      \* chunks written so far by the loop of path_source
    proc,        \* the Popen child of the current execute_command, its writer
    stderr,      \* lines in the writer's stderr pipe, not yet read
    printed,     \* lines forwarded to the user by the current execute_command
    alive,       \* number of writer (dd) processes that have not exited
    spawned,     \* number of writer processes spawned by the run
    outcome,     \* how the last pass ended, "none" while a writer runs
    handler,     \* frame of the running cleanup: index into temp_files, step
    error,       \* the uncaught exception that ended the run, if any
    created,     \* temporary files created by this run
    removed      \* file name -> number of os.remove calls that removed it

vars == <<passes, loop_mode, pc, i, starts, fs, temp_files, fill_n, proc,
          stderr, printed, alive, spawned, outcome, handler, error, created,
          removed>>

(***************************************************************************)
(* Bounds of the model.                                                    *)
(***************************************************************************)
\* longest schema
MaxPasses == 2
\* passes started in one run (a looping run never ends by itself)
MaxStarts == 3
\* capacity of the stderr pipe, in lines
MaxPipe == 1
\* lines one writer prints
MaxLines == 2
\* bytes written per f.write of the String buffer (1024 * 1024 in the code)
ChunkBytes == 4
\* f.write calls of the String buffer (256 in the code)
Reps == 2

(***************************************************************************)
(* Data.                                                                   *)
(***************************************************************************)
OnesFile == "ones_source.tmp"
StringFile == "string_source.tmp"
TmpFiles == {OnesFile, StringFile}
\* a source file that exists when the pass runs, and one that was removed
\* between configuration and execution
UserFile == "/data.img"
GoneFile == "/gone.img"
FileNames == TmpFiles \cup {UserFile, GoneFile}

Marker == "No space left on device"
Texts == {"progress", Marker}
\* the n-th line a writer prints
Line(n, text) == [n |-> n, text |-> text]

\* content is None for the types that need none
None == "None"
\* count as dd reads it: NoCount when the pass is to fill the disk (count is
\* None in the code), else the number of blocks
NoCount == <<>>
Count(n) == <<n>>
\* the strings a user may enter for a String pass (input().strip(): may be empty)
Contents == {"", "ab", "c"}

\* content.encode()
encode(content) ==
    CASE content = "ab" -> <<97, 98>>
      [] content = "c" -> <<99>>
      [] OTHER -> <<>>

\* len(content)
len(content) == Len(encode(content))

\* the passes that are explored: every type; the types whose command depends on
\* count (path_source) with and without one. A pass without count has the
\* default block size "1M" (the prompt takes both or none); block sizes are in
\* bytes. The Ones pass with a count asks for more than the buffer holds
PassSpecs ==
    {[type |-> "random", content |-> None, block_size |-> ChunkBytes,
      count |-> NoCount],
     [type |-> "zeros", content |-> None, block_size |-> 2, count |-> Count(1)],
     [type |-> "ones", content |-> None, block_size |-> ChunkBytes,
      count |-> NoCount],
     [type |-> "ones", content |-> None, block_size |-> ChunkBytes,
      count |-> Count(Reps + 1)],
     [type |-> "string", content |-> "ab", block_size |-> 2,
      count |-> Count(1)],
     [type |-> "string", content |-> "c", block_size |-> ChunkBytes,
      count |-> NoCount],
     [type |-> "string", content |-> "", block_size |-> ChunkBytes,
      count |-> NoCount],
     [type |-> "file", content |-> UserFile, block_size |-> ChunkBytes,
      count |-> NoCount],
     [type |-> "file", content |-> GoneFile, block_size |-> ChunkBytes,
      count |-> NoCount]}

RECURSIVE SeqsUpTo(_)
SeqsUpTo(n) ==
    IF n = 0 THEN {<<>>}
    ELSE LET shorter == SeqsUpTo(n - 1)
         IN  shorter \cup {Append(s, p) : s \in {t \in shorter : Len(t) = n - 1},
                                          p \in PassSpecs}

Schemas == SeqsUpTo(MaxPasses)

RECURSIVE Repeat(_, _)
\* bytes * n of Python
Repeat(bytes, n) == IF n <= 0 THEN <<>> ELSE bytes \o Repeat(bytes, n - 1)

Absent == [exists |-> FALSE, data |-> <<>>]
File(bytes) == [exists |-> TRUE, data |-> bytes]

\* os.path.isfile
isfile(name) == fs[name].exists

\* one f.write of the String loop: content.encode() * (1024 * 1024 // len(content));
\* the division raises ZeroDivisionError for an empty content (see FillString)
StringChunk(content) == Repeat(encode(content), ChunkBytes \div len(content))

\* b"\xFF" * (1024 * 1024 * 256)
OnesBuffer == Repeat(<<255>>, ChunkBytes * Reps)

\* the source of a command that never reaches end of input
Unbounded == -1

\* no process yet. child is the state of the Popen child (the shell of
\* shell=True, or the writer itself when the shell exec'd it), writer the state
\* of the writer (dd), shape the shape of the command, rc the exit status of
\* the child, marker whether execute_command read the marker line, term whether
\* process.terminate() was called, src and data the input the command names,
\* fed the number of bytes the command supplies to the writer, sent the number
\* of lines the writer has printed
NoProc == [child |-> "none", writer |-> "none", shape |-> "none", rc |-> 0,
           marker |-> FALSE, term |-> FALSE, src |-> "none", data |-> <<>>,
           fed |-> 0, sent |-> 0]

\* the working directory at the start of a run: no temporary file; the source
\* file of a File pass exists, the other was removed after the schema was
\* configured
Directory ==
    [f \in FileNames |-> IF f = UserFile THEN File(<<1, 2, 3>>) ELSE Absent]

\* no cleanup is running
NoHandler == [k |-> 0, st |-> "idle"]

Init ==
    /\ passes \in Schemas
    /\ loop_mode \in BOOLEAN
    /\ pc = "for"
    /\ i = 1
    /\ starts = 0
    /\ fs = Directory
    /\ temp_files = <<>>
    /\ fill_n = 0
    /\ proc = NoProc
    /\ stderr = <<>>
    /\ printed = <<>>
    /\ alive = 0
    /\ spawned = 0
    /\ outcome = "none"
    /\ handler = NoHandler
    /\ error = "none"
    /\ created = {}
    /\ removed = [f \in FileNames |-> 0]

\* main executes only while no handler is running
MainAt(where) == pc = where /\ handler = NoHandler

Terminal == pc \in {"completed", "exited", "crashed"}

\* the exit status of the process once the run has ended: sys.exit(0) in cleanup,
\* 0 when main returns, 1 when the interpreter dies of an uncaught exception
ExitStatus == IF pc = "crashed" THEN 1 ELSE 0

\* the temporary file of a Ones or String pass
TempFileOf(type) == IF type = "ones" THEN OnesFile ELSE StringFile

\* the shape of the command: stream_source and path_source with a count build
\* the simple command "dd ...", path_source without one the pipeline
\* "while :; do cat temp_file; done | dd ..."
ShapeOf(pass) ==
    IF pass.type \in {"ones", "string", "file"} /\ pass.count = NoCount
    THEN "pipeline"
    ELSE "simple"

\* the input named by the command that stream_source or path_source builds
SourceOf(pass) ==
    CASE pass.type = "random" -> "/dev/urandom"
      [] pass.type = "zeros" -> "/dev/zero"
      [] pass.type = "file" -> pass.content
      [] OTHER -> TempFileOf(pass.type)

\* Fed as it would be if path_source named the file as dd's input also when
\* there is no count
FedNoLoop(pass, data) ==
    IF pass.type \in {"random", "zeros"}
    THEN IF pass.count = NoCount THEN Unbounded
         ELSE pass.count[1] * pass.block_size
    ELSE IF pass.count = NoCount THEN Len(data)
         ELSE IF pass.count[1] * pass.block_size < Len(data)
              THEN pass.count[1] * pass.block_size
              ELSE Len(data)

\* the number of bytes the command supplies to the writer before end of input,
\* data being the content of the file it names: without count the device file
\* or the while loop never end; with "count=N" dd reads N blocks of bs bytes,
\* from a file up to its end
Fed(pass, data) ==
    IF pass.count = NoCount THEN Unbounded
    ELSE IF pass.type \in {"random", "zeros"}
         THEN pass.count[1] * pass.block_size
         ELSE IF pass.count[1] * pass.block_size < Len(data)
              THEN pass.count[1] * pass.block_size
              ELSE Len(data)

(***************************************************************************)
(* main: the while loop and the for loop over the schema.                  *)
(***************************************************************************)
\* the for loop takes pass i: "Running Pass i" is printed, perform_pass is called
StartPass ==
    /\ MainAt("for")
    /\ i <= Len(passes)
    /\ starts < MaxStarts
    /\ starts' = starts + 1
    /\ pc' = "perform"
    /\ UNCHANGED <<passes, loop_mode, i, fs, temp_files, fill_n, proc, stderr,
                   printed, alive, spawned, outcome, handler, error, created,
                   removed>>

\* Complete as it would be if a DeviceFull last pass ended a looping run
CompleteAfterDeviceFull ==
    /\ MainAt("for")
    /\ i > Len(passes)
    /\ ~loop_mode \/ outcome = "DeviceFull"
    /\ pc' = "completed"
    /\ UNCHANGED <<passes, loop_mode, i, starts, fs, temp_files, fill_n, proc,
                   stderr, printed, alive, spawned, outcome, handler, error,
                   created, removed>>

\* Complete as it would be if the while loop were left whatever loop_mode is
CompleteWithoutLoopTest ==
    /\ MainAt("for")
    /\ i > Len(passes)
    /\ pc' = "completed"
    /\ UNCHANGED <<passes, loop_mode, i, starts, fs, temp_files, fill_n, proc,
                   stderr, printed, alive, spawned, outcome, handler, error,
                   created, removed>>

\* the for loop is exhausted and loop_mode is off: break, print the completion
Complete ==
    /\ MainAt("for")
    /\ i > Len(passes)
    /\ ~loop_mode
    /\ pc' = "completed"
    /\ UNCHANGED <<passes, loop_mode, i, starts, fs, temp_files, fill_n, proc,
                   stderr, printed, alive, spawned, outcome, handler, error,
                   created, removed>>

\* the for loop is exhausted and loop_mode is on: while True starts it again
Restart ==
    /\ MainAt("for")
    /\ i > Len(passes)
    /\ loop_mode
    /\ i' = 1
    /\ UNCHANGED <<passes, loop_mode, pc, starts, fs, temp_files, fill_n, proc,
                   stderr, printed, alive, spawned, outcome, handler, error,
                   created, removed>>

(***************************************************************************)
(* perform_pass, stream_source, path_source.                               *)
(***************************************************************************)
\* perform_pass of a Random or Zero pass: stream_source builds the command
StreamSource ==
    /\ MainAt("perform")
    /\ passes[i].type \in {"random", "zeros"}
    /\ pc' = "exec"
    /\ UNCHANGED <<passes, loop_mode, i, starts, fs, temp_files, fill_n, proc,
                   stderr, printed, alive, spawned, outcome, handler, error,
                   created, removed>>

\* path_source of a Ones or String pass, up to the open: an existing buffer is
\* registered and used as it is, a missing one is created (empty) by open
PathSourceTemp ==
    /\ MainAt("perform")
    /\ passes[i].type \in {"ones", "string"}
    /\ LET f == TempFileOf(passes[i].type)
       IN  IF isfile(f)
           THEN /\ temp_files' = Append(temp_files, f)
                /\ pc' = "exec"
                /\ UNCHANGED <<fs, created, fill_n>>
           ELSE /\ fs' = [fs EXCEPT ![f] = File(<<>>)]
                /\ created' = created \cup {f}
                /\ fill_n' = 0
                /\ pc' = "fill"
                /\ UNCHANGED temp_files
    /\ UNCHANGED <<passes, loop_mode, i, starts, proc, stderr, printed, alive,
                   spawned, outcome, handler, error, removed>>

\* the single f.write of the Ones buffer; the with block closes the file
FillOnes ==
    /\ MainAt("fill")
    /\ passes[i].type = "ones"
    /\ fs' = [fs EXCEPT ![OnesFile] = File(OnesBuffer)]
    /\ pc' = "register"
    /\ UNCHANGED <<passes, loop_mode, i, starts, temp_files, fill_n, proc,
                   stderr, printed, alive, spawned, outcome, handler, error,
                   created, removed>>

\* one turn of the loop that fills the String buffer: the division by
\* len(content) raises ZeroDivisionError for an empty content, which nothing
\* catches; after the last turn the with block closes the file
FillString ==
    /\ MainAt("fill")
    /\ passes[i].type = "string"
    /\ IF fill_n = Reps
       THEN /\ pc' = "register"
            /\ UNCHANGED <<fs, fill_n, error>>
       ELSE IF len(passes[i].content) = 0
       THEN /\ pc' = "crashed"
            /\ error' = "ZeroDivisionError"
            /\ UNCHANGED <<fs, fill_n>>
       ELSE /\ fs' = [fs EXCEPT ![StringFile] =
                        File(@.data \o StringChunk(passes[i].content))]
            /\ fill_n' = fill_n + 1
            /\ UNCHANGED <<pc, error>>
    /\ UNCHANGED <<passes, loop_mode, i, starts, temp_files, proc, stderr,
                   printed, alive, spawned, outcome, handler, created, removed>>

\* temp_files.append(temp_file) after the buffer was written, then the command
Register ==
    /\ MainAt("register")
    /\ temp_files' = Append(temp_files, TempFileOf(passes[i].type))
    /\ pc' = "exec"
    /\ UNCHANGED <<passes, loop_mode, i, starts, fs, fill_n, proc, stderr,
                   printed, alive, spawned, outcome, handler, error, created,
                   removed>>

\* path_source of a File pass: a missing file is reported, the command is None
\* and perform_pass skips execute_command; the for loop goes on
PathSourceFile ==
    /\ MainAt("perform")
    /\ passes[i].type = "file"
    /\ IF isfile(passes[i].content)
       THEN /\ pc' = "exec"
            /\ UNCHANGED <<i, outcome>>
       ELSE /\ pc' = "for"
            /\ i' = i + 1
            /\ outcome' = "Skipped"
    /\ UNCHANGED <<passes, loop_mode, starts, fs, temp_files, fill_n, proc,
                   stderr, printed, alive, spawned, handler, error, created,
                   removed>>

(***************************************************************************)
(* execute_command.  Popen(command, shell=True) starts /bin/sh -c command. *)
(* For the simple command the shell either execs dd (bash: the Popen child *)
(* is the writer) or forks it and waits for it (dash: the child is the     *)
(* shell, which exits with dd's status when dd exits); which one is seen   *)
(* only when process.terminate() signals the child.  For the pipeline the  *)
(* child is always the shell, and it waits for the while loop, which never *)
(* ends and keeps the stderr pipe open.                                    *)
(***************************************************************************)
\* subprocess.Popen(command, shell=True, stdout=PIPE, stderr=PIPE)
Spawn ==
    /\ MainAt("exec")
    /\ LET src == SourceOf(passes[i])
           data == IF src \in FileNames THEN fs[src].data ELSE <<>>
       IN  proc' = [child |-> "running", writer |-> "running",
                    shape |-> ShapeOf(passes[i]), rc |-> 0,
                    marker |-> FALSE, term |-> FALSE, src |-> src,
                    data |-> data, fed |-> Fed(passes[i], data), sent |-> 0]
    /\ stderr' = <<>>
    /\ printed' = <<>>
    /\ alive' = alive + 1
    /\ spawned' = spawned + 1
    /\ outcome' = "none"
    /\ pc' = "drain"
    /\ UNCHANGED <<passes, loop_mode, i, starts, fs, temp_files, fill_n,
                   handler, error, created, removed>>

\* process.terminate(): nothing if the child was seen to have exited; else
\* SIGTERM to the child. A child that is the shell dies of it and the writer
\* lives on; a child that is the writer has the signal pending
Terminated(p, execd) ==
    IF p.child # "running" THEN p
    ELSE IF p.shape = "simple" /\ execd THEN [p EXCEPT !.child = "signalled"]
    ELSE [p EXCEPT !.child = "exited", !.rc = -15]

\* ReadLine as it would be if the marker line were escalated as an error
ReadLineRaises ==
    /\ MainAt("drain")
    /\ stderr # <<>>
    /\ stderr' = Tail(stderr)
    /\ IF Head(stderr).text = Marker
       THEN /\ pc' = "crashed"
            /\ error' = "CalledProcessError"
            /\ UNCHANGED <<proc, printed>>
       ELSE /\ printed' = Append(printed, Head(stderr))
            /\ UNCHANGED <<proc, pc, error>>
    /\ UNCHANGED <<passes, loop_mode, i, starts, fs, temp_files, fill_n, alive,
                   spawned, outcome, handler, created, removed>>

\* ReadLine as it would be without the break after process.terminate()
ReadLineNoBreak ==
    /\ MainAt("drain")
    /\ stderr # <<>>
    /\ stderr' = Tail(stderr)
    /\ IF Head(stderr).text = Marker
       THEN /\ \E execd \in BOOLEAN :
                 proc' = Terminated([proc EXCEPT !.marker = TRUE, !.term = TRUE],
                                    execd)
            /\ UNCHANGED printed
       ELSE /\ printed' = Append(printed, Head(stderr))
            /\ UNCHANGED proc
    /\ UNCHANGED <<passes, loop_mode, pc, i, starts, fs, temp_files, fill_n,
                   alive, spawned, outcome, handler, error, created, removed>>

\* one turn of "for line in process.stderr": the marker line prints the disk
\* full message, calls process.terminate() and breaks; any other line is
\* printed
ReadLine ==
    /\ MainAt("drain")
    /\ stderr # <<>>
    /\ stderr' = Tail(stderr)
    /\ IF Head(stderr).text = Marker
       THEN /\ \E execd \in BOOLEAN :
                 proc' = Terminated([proc EXCEPT !.marker = TRUE, !.term = TRUE],
                                    execd)
            /\ pc' = "wait"
            /\ UNCHANGED printed
       ELSE /\ printed' = Append(printed, Head(stderr))
            /\ UNCHANGED <<proc, pc>>
    /\ UNCHANGED <<passes, loop_mode, i, starts, fs, temp_files, fill_n, alive,
                   spawned, outcome, handler, error, created, removed>>

\* the for loop over process.stderr ends at end of file: every line was read
\* and every process holding the pipe has exited (with the pipeline the while
\* loop never does)
ReadEOF ==
    /\ MainAt("drain")
    /\ stderr = <<>>
    /\ proc.shape = "simple"
    /\ proc.child = "exited"
    /\ pc' = "wait"
    /\ UNCHANGED <<passes, loop_mode, i, starts, fs, temp_files, fill_n, proc,
                   stderr, printed, alive, spawned, outcome, handler, error,
                   created, removed>>

\* process.wait() returns once the child has exited; its return value is
\* dropped, execute_command and perform_pass return (the Popen object is
\* dropped with them) and the for loop goes on
Wait ==
    /\ MainAt("wait")
    /\ proc.child = "exited"
    /\ outcome' = IF proc.marker THEN "DeviceFull" ELSE "Completed"
    /\ proc' = NoProc
    /\ stderr' = <<>>
    /\ printed' = <<>>
    /\ pc' = "for"
    /\ i' = i + 1
    /\ UNCHANGED <<passes, loop_mode, starts, fs, temp_files, fill_n, alive,
                   spawned, handler, error, created, removed>>

(***************************************************************************)
(* The writer: the external process (dd) started by the command.  It is    *)
(* followed until the program exits.                                       *)
(***************************************************************************)
\* the writer prints its next diagnostic line while execute_command has not
\* returned; the pipe takes it if it has room
WriterEmit ==
    /\ proc.writer = "running"
    /\ pc \in {"drain", "wait"}
    /\ proc.sent < MaxLines
    /\ Len(stderr) < MaxPipe
    /\ \E text \in Texts : stderr' = Append(stderr, Line(proc.sent + 1, text))
    /\ proc' = [proc EXCEPT !.sent = @ + 1]
    /\ UNCHANGED <<passes, loop_mode, pc, i, starts, fs, temp_files, fill_n,
                   printed, alive, spawned, outcome, handler, error, created,
                   removed>>

\* the exit status of a writer that exits by itself: 1 after an error, 0 at the
\* end of its input
OwnStatus(p) == IF p.fed = Unbounded THEN {1} ELSE {0, 1}

\* the writer of the current command exits: by itself, or killed by a pending
\* SIGTERM (returncode -15). The child of a simple command exits with it (it
\* is the writer, or the shell that waited for it)
WriterExit ==
    /\ proc.writer = "running"
    /\ ~Terminal
    /\ \E rc \in IF proc.child = "signalled" THEN {-15} ELSE OwnStatus(proc) :
          proc' = IF proc.shape = "simple" /\ proc.child # "exited"
                  THEN [proc EXCEPT !.writer = "exited", !.child = "exited",
                                    !.rc = rc]
                  ELSE [proc EXCEPT !.writer = "exited"]
    /\ alive' = alive - 1
    /\ UNCHANGED <<passes, loop_mode, pc, i, starts, fs, temp_files, fill_n,
                   stderr, printed, spawned, outcome, handler, error, created,
                   removed>>

\* the writer of an earlier command, left running when its shell was killed,
\* exits
OrphanExit ==
    /\ alive > (IF proc.writer = "running" THEN 1 ELSE 0)
    /\ ~Terminal
    /\ alive' = alive - 1
    /\ UNCHANGED <<passes, loop_mode, pc, i, starts, fs, temp_files, fill_n,
                   proc, stderr, printed, spawned, outcome, handler, error,
                   created, removed>>

(***************************************************************************)
(* cleanup, the SIGINT handler.  Every path of cleanup ends in sys.exit(0)  *)
(* or in an exception, which unwind the frames below it: a cleanup frame   *)
(* interrupted by a later SIGINT is never resumed, so of the stack of      *)
(* cleanup frames only the running one is kept.                            *)
(***************************************************************************)
\* SIGINT is delivered: Python calls cleanup on top of whatever the main thread
\* is executing, cleanup itself included
Sigint ==
    /\ ~Terminal
    /\ handler' = [k |-> 1, st |-> "check"]
    /\ UNCHANGED <<passes, loop_mode, pc, i, starts, fs, temp_files, fill_n,
                   proc, stderr, printed, alive, spawned, outcome, error,
                   created, removed>>

\* CleanupCheck as it would be without the os.path.isfile test
CleanupCheckNoIsfile ==
    /\ handler.st = "check"
    /\ handler.k <= Len(temp_files)
    /\ handler' = [handler EXCEPT !.st = "remove"]
    /\ UNCHANGED <<passes, loop_mode, pc, i, starts, fs, temp_files, fill_n,
                   proc, stderr, printed, alive, spawned, outcome, error,
                   created, removed>>

\* "for temp_file in temp_files: if os.path.isfile(temp_file)"
CleanupCheck ==
    /\ handler.st = "check"
    /\ handler.k <= Len(temp_files)
    /\ handler' = IF isfile(temp_files[handler.k])
                  THEN [handler EXCEPT !.st = "remove"]
                  ELSE [handler EXCEPT !.k = @ + 1]
    /\ UNCHANGED <<passes, loop_mode, pc, i, starts, fs, temp_files, fill_n,
                   proc, stderr, printed, alive, spawned, outcome, error,
                   created, removed>>

\* os.remove(temp_file): raises FileNotFoundError when the file is gone, which
\* nothing catches
CleanupRemove ==
    /\ handler.st = "remove"
    /\ LET f == temp_files[handler.k]
       IN  IF fs[f].exists
           THEN /\ fs' = [fs EXCEPT ![f] = Absent]
                /\ removed' = [removed EXCEPT ![f] = @ + 1]
                /\ handler' = [k |-> handler.k + 1, st |-> "check"]
                /\ UNCHANGED <<pc, error>>
           ELSE /\ pc' = "crashed"
                /\ error' = "FileNotFoundError"
                /\ handler' = NoHandler
                /\ UNCHANGED <<fs, removed>>
    /\ UNCHANGED <<passes, loop_mode, i, starts, temp_files, fill_n, proc,
                   stderr, printed, alive, spawned, outcome, created>>

\* the loop is over: print, sys.exit(0). SystemExit unwinds every frame below,
\* the interrupted handlers and main included; no except clause catches it
CleanupExit ==
    /\ handler.st = "check"
    /\ handler.k > Len(temp_files)
    /\ pc' = "exited"
    /\ handler' = NoHandler
    /\ UNCHANGED <<passes, loop_mode, i, starts, fs, temp_files, fill_n, proc,
                   stderr, printed, alive, spawned, outcome, error, created,
                   removed>>

Next ==
    \/ StartPass
    \/ Complete
    \/ Restart
    \/ StreamSource
    \/ PathSourceTemp
    \/ FillOnes
    \/ FillString
    \/ Register
    \/ PathSourceFile
    \/ Spawn
    \/ ReadLine
    \/ ReadEOF
    \/ Wait
    \/ WriterEmit
    \/ WriterExit
    \/ OrphanExit
    \/ Sigint
    \/ CleanupCheck
    \/ CleanupRemove
    \/ CleanupExit

Spec == Init /\ [][Next]_vars

\* a File pass whose source, a file of the user, has the name of the Ones buffer
AliasPass ==
    [type |-> "file", content |-> OnesFile, block_size |-> ChunkBytes,
     count |-> NoCount]

\* the schemas that hold such a pass
AliasSchemas ==
    {<<AliasPass>>} \cup {<<AliasPass, p>> : p \in PassSpecs}
                   \cup {<<p, AliasPass>> : p \in PassSpecs}

\* the runs of Init and those with such a pass: configure_passes accepted the
\* path, so the file exists when the run starts
AliasInit ==
    /\ passes \in Schemas \cup AliasSchemas
    /\ loop_mode \in BOOLEAN
    /\ pc = "for"
    /\ i = 1
    /\ starts = 0
    /\ fs = IF passes \in AliasSchemas
            THEN [Directory EXCEPT ![OnesFile] = File(<<1, 2, 3>>)]
            ELSE Directory
    /\ temp_files = <<>>
    /\ fill_n = 0
    /\ proc = NoProc
    /\ stderr = <<>>
    /\ printed = <<>>
    /\ alive = 0
    /\ spawned = 0
    /\ outcome = "none"
    /\ handler = NoHandler
    /\ error = "none"
    /\ created = {}
    /\ removed = [f \in FileNames |-> 0]

AliasSpec == AliasInit /\ [][Next]_vars

\* the steps of the Python process itself, main and signal handler
Program ==
    \/ StartPass
    \/ Complete
    \/ Restart
    \/ StreamSource
    \/ PathSourceTemp
    \/ FillOnes
    \/ FillString
    \/ Register
    \/ PathSourceFile
    \/ Spawn
    \/ ReadLine
    \/ ReadEOF
    \/ Wait
    \/ CleanupCheck
    \/ CleanupRemove
    \/ CleanupExit

\* the interpreter keeps running while it can take a step; the writer and the
\* user are not bound to anything
FairSpec == Spec /\ WF_vars(Program)

(***************************************************************************)
(* Properties.                                                             *)
(***************************************************************************)
\* main takes a step: its position or its loop index changes
MainMoves == <<pc, i>>' # <<pc, i>>

\* C1: when execute_command reads the marker line it asks the writer to
\* terminate and leaves the read loop; the wait that follows ends the pass as
\* DeviceFull and moves the for loop to the next pass; from there the runner
\* starts that pass, restarts the schema or completes: it does not abort, raise
\* an error or take the same pass again.
C1_MarkerEndsPassAsDeviceFull ==
    [][/\ (MainAt("drain") /\ stderr # <<>> /\ Head(stderr).text = Marker
           /\ MainMoves)
            => (pc' = "wait" /\ proc'.marker /\ proc'.term
                /\ proc'.child # "running" /\ error' = "none")
       /\ (MainAt("wait") /\ proc.marker /\ MainMoves)
            => (pc' = "for" /\ i' = i + 1 /\ outcome' = "DeviceFull"
                /\ error' = "none")
       /\ (MainAt("for") /\ outcome = "DeviceFull" /\ MainMoves)
            => /\ error' = "none"
               /\ \/ pc' = "perform" /\ i' = i /\ starts' = starts + 1
                  \/ pc' = "for" /\ i' = 1 /\ loop_mode /\ i > Len(passes)
                  \/ pc' = "completed" /\ ~loop_mode /\ i > Len(passes)]_vars

\* C1 witness: the pass after a DeviceFull pass has been started.
C1_Witness ==
    /\ pc = "perform"
    /\ outcome = "DeviceFull"
    /\ i = 2
    /\ spawned = 1

\* C2: when process.wait() returns the non-zero status of a writer that printed
\* no marker, the pass ends as Failed and the run is aborted: the for loop does
\* not go on.
C2_FailedAbortsSchema ==
    [][(MainAt("wait") /\ proc.child = "exited" /\ proc.rc # 0 /\ ~proc.marker
        /\ MainMoves)
            => (outcome' = "Failed" /\ pc' = "crashed")]_vars

\* C3: a looping run never completes; when the for loop is exhausted it starts
\* again at the first pass whatever the outcome of the last pass; after every
\* pass that returns, DeviceFull included, the for loop goes to the next pass; a
\* looping run ends only by cancellation (the exit of cleanup) or by an
\* uncaught error.
C3_LoopRestartsForever ==
    /\ [](loop_mode => /\ pc # "completed"
                       /\ pc = "crashed" => error # "none")
    /\ [][loop_mode =>
           /\ (Terminal' /\ ~Terminal)
                => \/ pc' = "exited" /\ handler.st = "check"
                   \/ pc' = "crashed" /\ error' # "none"
           /\ (MainAt("for") /\ i > Len(passes) /\ MainMoves)
                => (pc' = "for" /\ i' = 1 /\ error' = "none")
           /\ (MainAt("wait") /\ MainMoves)
                => (pc' = "for" /\ i' = i + 1
                    /\ outcome' \in {"Completed", "DeviceFull"})
           /\ (MainAt("for") /\ i <= Len(passes) /\ MainMoves)
                => (pc' = "perform" /\ i' = i)]_vars

\* C3 witness: a looping run is back at the first pass after its last pass
\* ended as DeviceFull, and has started the first pass again.
C3_Witness ==
    /\ loop_mode
    /\ Len(passes) = MaxPasses
    /\ starts = Len(passes) + 1
    /\ i = 1
    /\ pc = "perform"
    /\ outcome = "DeviceFull"

\* C4: once the run has exited through cleanup, no temporary file created by
\* the run exists.
C4_CancelRemovesEveryTempFile ==
    pc = "exited" => \A f \in created : ~isfile(f)

\* C5: once the run has completed, or was aborted by an error, no temporary
\* file created by the run exists.
C5_ReleasedOnEveryExitPath ==
    pc \in {"completed", "crashed"} => \A f \in created : ~isfile(f)

\* C6: however many times SIGINT is delivered and however often a file is
\* registered, no file is removed twice, os.remove is only ever called on a file
\* that exists, cleanup raises no error, and once the run has exited through
\* cleanup every registered file is gone, removed exactly once.
C6_ReleaseIsIdempotent ==
    /\ \A f \in FileNames : removed[f] <= 1
    /\ error # "FileNotFoundError"
    /\ handler.st = "remove" => isfile(temp_files[handler.k])
    /\ pc = "exited" =>
         \A k \in 1..Len(temp_files) :
            ~isfile(temp_files[k]) /\ removed[temp_files[k]] = 1

\* C6 witness: SIGINT is delivered again after the first cleanup removed a file
\* that is registered twice: the second cleanup starts over the same list.
C6_Witness ==
    /\ handler = [k |-> 1, st |-> "check"]
    /\ Len(temp_files) >= 2
    /\ temp_files[1] = temp_files[2]
    /\ removed[temp_files[1]] = 1
    /\ ~isfile(temp_files[1])

\* C7: the run has never exited through cleanup while the writer of the pass it
\* was executing is running and process.terminate() was not called.
C7_WriterTerminatedOnCancel ==
    (pc = "exited" /\ proc.writer = "running") => proc.term

\* C8: at most one writer process of the run is alive, and a writer is spawned
\* only when the writers of the earlier passes have exited.
C8_OneWriterAtATime ==
    /\ alive <= 1
    /\ pc = "exec" => alive = 0

\* a File pass whose path does not exist, a String pass with empty content
Invalid(pass) ==
    \/ pass.type = "file" /\ ~isfile(pass.content)
    \/ pass.type = "string" /\ pass.content = ""

\* C9: a run whose schema holds an invalid pass spawns no writer at all and
\* ends with an error.
C9_InvalidPassFailsBeforeAnyWrite ==
    (\E k \in 1..Len(passes) : Invalid(passes[k]))
        => (spawned = 0 /\ pc # "completed")

\* bytes is made of the bytes of unit, repeated from its start
IsCyclicRepetition(bytes, unit) ==
    /\ bytes # <<>> => unit # <<>>
    /\ \A k \in 1..Len(bytes) : bytes[k] = unit[((k - 1) % Len(unit)) + 1]

\* C10: the input of the writer of a String pass (with a content that is not
\* empty) is the cyclic repetition of the content of that pass.
C10_StringPassWritesItsOwnContent ==
    (pc \in {"drain", "wait"} /\ passes[i].type = "string"
     /\ passes[i].content # "")
        => IsCyclicRepetition(proc.data, encode(passes[i].content))

\* C11: the command of a pass with count N and block size B supplies exactly
\* N * B bytes to the writer.
C11_CountedPassSuppliesAllBytes ==
    (pc \in {"drain", "wait"} /\ passes[i].count # NoCount)
        => proc.fed = passes[i].count[1] * passes[i].block_size

\* C12: the source of a pass without count is unbounded, the writer of such a
\* pass never exits with the status of a finished copy, and when such a pass
\* ends as Completed the child had failed: it did not reach the end of input.
C12_NoCountNeverEndsByEndOfInput ==
    /\ [][(MainAt("exec") /\ passes[i].count = NoCount /\ MainMoves)
            => proc'.fed = Unbounded]_vars
    /\ [][(proc.writer = "running" /\ proc'.writer = "exited"
           /\ proc.fed = Unbounded /\ proc.shape = "simple"
           /\ proc.child # "exited")
            => proc'.rc # 0]_vars
    /\ [][(MainAt("wait") /\ proc.fed = Unbounded /\ MainMoves
           /\ outcome' = "Completed")
            => (proc.rc # 0 /\ ~proc.marker)]_vars

\* C12 witness: the writer of a Ones pass without count has exited by itself
\* and the pass has ended.
C12_Witness ==
    /\ pc = "for"
    /\ i = 2
    /\ passes[1].type = "ones"
    /\ passes[1].count = NoCount
    /\ outcome = "DeviceFull"
    /\ alive = 0

\* C13: once the marker line has been read, the wait of execute_command comes
\* to an end.
C13_WaitAfterMarkerIsBounded ==
    (pc = "wait" /\ proc.marker) ~> (pc # "wait")

\* C14: a completed run exits with status 0, and a non-looping run that was
\* cancelled exits with a status that is neither 0 nor 1.
C14_ExitStatusTellsHowTheRunEnded ==
    /\ pc = "completed" => ExitStatus = 0
    /\ (pc = "exited" /\ ~loop_mode) => ExitStatus \notin {0, 1}

\* execute_command takes the first line out of the pipe
Reads == MainAt("drain") /\ stderr # <<>> /\ stderr' = Tail(stderr)

TerminalOutcomes == {"Completed", "DeviceFull", "Failed", "Cancelled"}

\* C16: in a non-looping run the for loop never goes back, the k-th pass
\* started is pass k of the schema, a pass after the first is started only when
\* the pass before it has ended with a terminal outcome, and the completion is
\* announced only after the last pass has ended with a terminal outcome.
C16_PassesRunInOrderToATerminalOutcome ==
    [][~loop_mode =>
          /\ i' \in {i, i + 1}
          /\ (MainAt("for") /\ pc' = "perform")
              => /\ i = starts + 1
                 /\ i > 1 => outcome \in TerminalOutcomes
          /\ (MainAt("for") /\ pc' = "completed")
              => /\ i = Len(passes) + 1
                 /\ Len(passes) > 0 => outcome \in TerminalOutcomes]_vars

\* C17: a run with an empty schema starts no pass and spawns no writer; with
\* the loop flag off the only step of main is the completion; with the loop
\* flag on the run is never completed and only the exit of cleanup ends it.
C17_EmptySchemaIsANoOp ==
    /\ [](Len(passes) = 0 =>
            /\ spawned = 0 /\ starts = 0 /\ alive = 0
            /\ pc \in (IF loop_mode THEN {"for", "exited"}
                        ELSE {"for", "completed", "exited"}))
    /\ [][(Len(passes) = 0 /\ pc' # pc)
            => IF loop_mode
               THEN pc' = "exited" /\ handler.st = "check"
               ELSE \/ pc' = "completed" /\ MainAt("for")
                    \/ pc' = "exited" /\ handler.st = "check"]_vars

\* C17 witness: a looping run with an empty schema was cancelled.
C17_Witness ==
    /\ Len(passes) = 0
    /\ loop_mode
    /\ pc = "exited"

\* C18: the registry holds nothing but the buffers of Ones and String passes;
\* the source path of a File pass is never in the registry and cleanup never
\* removes it; a run without Ones and String passes registers nothing.
C18_RegistryHoldsOnlyOwnBuffers ==
    /\ \A k \in 1..Len(temp_files) : temp_files[k] \in TmpFiles
    /\ \A j \in 1..Len(passes) :
          passes[j].type = "file"
            => /\ removed[passes[j].content] = 0
               /\ \A k \in 1..Len(temp_files) :
                     temp_files[k] # passes[j].content
    /\ (\A j \in 1..Len(passes) : passes[j].type \notin {"ones", "string"})
          => temp_files = <<>>

====
